---- MODULE Spec2Model ----
(***************************************************************************)
(* The heartbeat scheduler (BeatReactor) of eureka-client and the          *)
(* concurrent map it keeps its state in.                                   *)
(*                                                                         *)
(* One BeatReactor is modelled.  Callers run AddBeatInfo / RemoveBeatInfo  *)
(* under br.mux; every AddBeatInfo starts one goroutine running            *)
(* sendInstanceBeat.  Goroutines and callers interleave at every access    *)
(* to shared memory (the two maps, the semaphore, a record's Status).      *)
(* Goroutines have no identity in Go: the model keeps how many goroutines  *)
(* are at each position with each argument.                                *)
(***************************************************************************)
EXTENDS Integers, FiniteSets, Sequences, Bags, TLC

\* ------------------------------------------------------------------ bounds

\* Number of sendInstanceBeat goroutines ever started (= AddBeatInfo calls).
MaxTasks == 3

\* Capacity of br.beatThreadSemaphore in the model.  The program uses
\* DefaultBeatThreadNum (20); the model scales it below MaxTasks so that
\* goroutines do block in Acquire.
BeatThreadCount == 2

\* Number of shards of a ConcurrentMap in the model.  The program uses
\* ShardCount = 32; the model scales it down, keeping more keys than shards.
ShardCount == 2

\* Largest value an Upsert may store; a call that could exceed it is not
\* started.
MaxVal == 3

\* The clock stops advancing at MaxNow milliseconds.
MaxNow == 2

\* ------------------------------------------------------------ value spaces

\* InstanceIDs used as map keys.
Keys == {"k1", "k2"}

\* The key whose heartbeats only fail transiently in TransientSpec.
K1 == "k1"

\* *Instance objects: <<InstanceID, n>>.  A caller may hold two objects
\* with the InstanceID k1.
Recs == {<<"k1", 1>>, <<"k1", 2>>, <<"k2", 1>>}

\* The nil *Instance.
NoRec == <<"nil", 0>>

\* Instance.InstanceID of a record.
InstanceID(r) == r[1]

\* What the PUT of Heartbeat ends with: an HTTP status code, or NoResponse
\* when the transport failed (result.Err).
NoResponse == 0

Responses == {NoResponse, 200, 404, 500}

\* A goroutine: <<position, beatInfo, history>>.  It is at "wait" (before
\* Acquire: just started, or in <-t.C of the previous round and then
\* blocked in Acquire), "check" (slot held, before the Status test), "beat"
\* (inside Heartbeat), "notfound" (Heartbeat returned ErrNotFound, before
\* beatMap.Remove), "set" (Heartbeat returned nil and time.Now() has been
\* read, before beatRecordMap.Set; only where the clock advances) or "exit"
\* (returned).  The history is 1 when it has
\* started a heartbeat attempt while its key was `removed`, else 0.
Running == {"wait", "check", "beat", "notfound", "set"}

TaskStates == ((Running \X Recs) \X {0, 1}) \cup (({"exit"} \X Recs) \X {0})

Task(p, r, h) == <<<<p, r>>, h>>

PcOf(x) == x[1][1]

BeatInfoOf(x) == x[1][2]

AfterRm(x) == x[2]

KeyOf(x) == InstanceID(BeatInfoOf(x))

VARIABLES
    beatMap,        \* br.beatMap: InstanceID -> *Instance
    beatRecordMap,  \* br.beatRecordMap: InstanceID -> time of last success
    status,         \* Instance.Status of every *Instance object
    sem,            \* slots of br.beatThreadSemaphore currently held
    tasks,          \* the bag of the TaskStates of the goroutines started
    call,           \* the AddBeatInfo / RemoveBeatInfo call holding br.mux
    now,            \* the clock read by time.Now(), in milliseconds
    live,           \* history: AddBeatInfo(k) started its goroutine and since
                    \* then neither was an add/remove of k called nor did a
                    \* heartbeat of k return NotFound
    removed,        \* history: a RemoveBeatInfo(k) that found k returned and
                    \* AddBeatInfo(k) was not called since
    shards,         \* a ConcurrentMap used on its own: shard index -> items
    locks,          \* the RWMutex of every shard of that map
    procs,          \* the callers of that map: what each is executing
    ctor,           \* the last call of NewBeatReactor: argument and result
    stamps,         \* the times read by the goroutines at "set": a bag of
                    \* <<beatInfo, time>>
    api,            \* the Register / UnRegister call in progress, and what
                    \* the last one returned
    iter            \* the IterBuffered call on the map used on its own: its
                    \* goroutines and channels

\* The state of the BeatReactor.
reactorVars == <<beatMap, beatRecordMap, status, sem, tasks, call, now, live, removed>>

\* The state of the ConcurrentMap used on its own and of its callers.
mapVars == <<shards, locks, procs>>

\* The last constructor call.
ctorVars == <<ctor>>

\* The times read and not yet stored.
clockVars == <<stamps>>

\* The caller of Register / UnRegister.
apiVars == <<api>>

\* The IterBuffered call, its goroutines and channels.
bufVars == <<iter>>

vars == <<beatMap, beatRecordMap, status, sem, tasks, call, now, live, removed,
          shards, locks, procs, ctor, stamps, api, iter>>

\* ---------------------------------------------------------- ConcurrentMap
\* A map is a function whose domain is the set of stored keys.  Every
\* operation below runs under the lock of the key's shard, so it is atomic.

EmptyMap == [k \in {} |-> NoRec]

\* ConcurrentMap.Get
Get(m, k) ==
    IF k \in DOMAIN m THEN [val |-> m[k], ok |-> TRUE]
                      ELSE [val |-> NoRec, ok |-> FALSE]

\* ConcurrentMap.Set
Set(m, k, v) == [x \in (DOMAIN m) \cup {k} |-> IF x = k THEN v ELSE m[x]]

\* ConcurrentMap.Remove
Remove(m, k) == [x \in (DOMAIN m) \ {k} |-> m[x]]

\* Keys of the ConcurrentMap used on its own, as the bytes of the string:
\* "a", "b", "c".
MapKeys == {<<97>>, <<98>>, <<99>>}

\* The empty string; the key field of a caller that is not in a call.
NoKey == <<>>

\* The values callers store, and nil.
Vals == {1, 2}

NoVal == 0

\* The goroutines calling the map.
Procs == {1, 2}

\* Bitwise exclusive or of two naturals.
RECURSIVE Xor(_, _)
Xor(a, b) ==
    IF a = 0 THEN b
    ELSE IF b = 0 THEN a
    ELSE (((a % 2) + (b % 2)) % 2) + 2 * Xor(a \div 2, b \div 2)

\* hash/fnv New32: the 32-bit FNV-1 hash, kept as <<high, low>> 16-bit
\* halves.  The offset basis is 0x811C9DC5.
FnvOffset32 == <<33052, 40389>>

\* One byte of hash.Write: hash *= 0x01000193 (mod 2^32); hash ^= byte.
FnvWriteByte(h, c) ==
    LET lo == h[2] * 403
        hi == (h[1] * 403) + (h[2] * 256) + (lo \div 65536)
    IN <<hi % 65536, Xor(lo % 65536, c)>>

RECURSIVE FnvWrite(_, _)
FnvWrite(h, bytes) ==
    IF bytes = <<>> THEN h
    ELSE FnvWrite(FnvWriteByte(h, Head(bytes)), Tail(bytes))

\* hash.Sum32() after hash.Write([]byte(key)), for every key in use.
Sum32 == [key \in MapKeys \cup {NoKey} |-> FnvWrite(FnvOffset32, key)]

\* hash.Sum32() % uint32(ShardCount), for every key in use.
ShardIndex ==
    [key \in MapKeys \cup {NoKey} |->
        LET h == Sum32[key]
        IN (((h[1] % ShardCount) * (65536 % ShardCount)) + (h[2] % ShardCount)) % ShardCount]

\* GetShard as it would be if the assignment moved as the map fills up
\* (resharding): the index also depends on the number of stored keys.
GetShardResharded(key) ==
    LET h == Sum32[key]
        n == Cardinality(UNION {DOMAIN shards[i] : i \in 0 .. (ShardCount - 1)})
    IN ((h[2] % ShardCount) + n) % ShardCount

\* ConcurrentMap.GetShard: the index hash.Sum32() % uint32(ShardCount).
GetShard(key) == ShardIndex[key]

ShardIds == 0 .. (ShardCount - 1)

\* A caller that is not in a call.  Fields: the operation and the position
\* in it, its arguments key and value, the index i of the shard a loop is
\* at, what a read of the key returned (val, ok), the keys todo of the range
\* loop over the current shard, the result acc built so far (a number, or a
\* bag of keys or of <<key, value>> pairs), and three histories of a call
\* that enumerates: the sizes the map had since the call began (seen), the
\* entries present all that time (always), the keys absent all that time
\* (never).
Idle == [op |-> "idle", pc |-> "idle", key |-> NoKey, value |-> NoVal, i |-> 0,
         val |-> NoVal, ok |-> FALSE, todo |-> {}, count |-> 0, acc |-> EmptyBag,
         seen |-> {}, always |-> {}, never |-> {}]

\* An unlocked RWMutex: no writer, no readers.
Unlocked == [w |-> FALSE, r |-> 0]

\* ---------------------------------------------------------- 64-bit integers
\* An int64 (and a time.Duration, which is one) is kept as its 8 bytes in
\* two's complement, least significant first, so that a product wraps
\* modulo 2^64 as it does in Go.

\* Byte i of a, zero beyond its length.
Limb(a, i) == IF i <= Len(a) THEN a[i] ELSE 0

\* The sum of a[i] * b[n + 1 - i] for i in 1 .. n, down from i.
RECURSIVE Conv(_, _, _, _)
Conv(a, b, n, i) ==
    IF i = 0 THEN 0 ELSE (Limb(a, i) * Limb(b, (n + 1) - i)) + Conv(a, b, n, i - 1)

\* The bytes n .. w of the product a * b, given the carry into byte n.
RECURSIVE MulFrom(_, _, _, _, _)
MulFrom(a, b, n, carry, w) ==
    IF n > w THEN <<>>
    ELSE LET t == Conv(a, b, n, n) + carry
         IN <<t % 256>> \o MulFrom(a, b, n + 1, t \div 256, w)

\* a * b on int64: the low 64 bits of the product.
Mul64(a, b) == MulFrom(a, b, 1, 0, 8)

\* The product of two non-negative int64 as the mathematical integer it
\* is, on 128 bits.
MulExact(a, b) == MulFrom(a, b, 1, 0, 16)

\* An int64 as the same integer on 128 bits.
SignExtend(a) == a \o [i \in 1 .. 8 |-> IF a[8] >= 128 THEN 255 ELSE 0]

\* a <= 0 on int64
LeqZero(a) == a[8] >= 128 \/ a = <<0, 0, 0, 0, 0, 0, 0, 0>>

\* The int64 of a number below 256.
Small(n) == <<n, 0, 0, 0, 0, 0, 0, 0>>

\* The int64 of -n, for n in 1 .. 255.
SmallNeg(n) == <<256 - n, 255, 255, 255, 255, 255, 255, 255>>

\* time.Second: 1000000000 nanoseconds, 0x3B9ACA00.
Second == <<0, 202, 154, 59, 0, 0, 0, 0>>

\* DefaultBeatThreadNum
DefaultBeatThreadNum == 20

\* The arguments NewBeatReactor is called with: -60 .. 60, the ten values
\* 9223372032 .. 9223372041 (0x225C17D00 + b), the least and the greatest
\* int64.
Intervals ==
    {Small(n) : n \in 0 .. 60} \cup {SmallNeg(n) : n \in 1 .. 60}
        \cup {<<b, 125, 193, 37, 2, 0, 0, 0>> : b \in 0 .. 9}
        \cup {<<0, 0, 0, 0, 0, 0, 0, 128>>, <<255, 255, 255, 255, 255, 255, 255, 127>>}

\* No reactor has been constructed.
NoCtor == [arg |-> <<>>, clientBeatIntervalInSecs |-> <<>>, beatThreadCount |-> 0,
           capacity |-> 0, Period |-> <<>>]

\* ------------------------------------------------------------- goroutines

\* Goroutines started so far.
NumTasks == BagCardinality(tasks)

\* The bag of the goroutines at one of the positions P.
At(P) == [x \in {y \in DOMAIN tasks : PcOf(y) \in P} |-> tasks[x]]

NumAt(P) == BagCardinality(At(P))

\* One goroutine goes from x to y.
Move(x, y) == tasks' = (tasks (-) SetToBag({x})) (+) SetToBag({y})

\* The bag b with the history of every running goroutine of key k set to h.
RECURSIVE Rehist(_, _, _)
Rehist(b, k, h) ==
    IF DOMAIN b = {} THEN EmptyBag
    ELSE LET x == CHOOSE y \in DOMAIN b : TRUE
             rest == [y \in DOMAIN b \ {x} |-> b[y]]
             z == IF KeyOf(x) = k /\ PcOf(x) \in Running
                  THEN Task(PcOf(x), BeatInfoOf(x), h) ELSE x
         IN [y \in {z} |-> b[x]] (+) Rehist(rest, k, h)

\* ------------------------------------------------------------------- Init

\* No call is in progress.  Fields of a call: the operation and the position
\* in it, the record AddBeatInfo was called with (arg), k, the variable
\* beatInfo, and what beatMap.Get(k) returned (data, ok).
NoCall == [op |-> "none", pc |-> "none", arg |-> NoRec, k |-> "nil", beatInfo |-> NoRec,
           data |-> NoRec, ok |-> FALSE]

\* A channel that has not been made; a made one has a capacity, the set of
\* the Tuples sent and not received (keys are distinct, the order does not
\* matter here), and is closed or not.
NoChan == [made |-> FALSE, cap |-> 0, buf |-> {}, closed |-> FALSE]

\* No Tuple.
NoTuple == <<NoKey, NoVal>>

\* No IterBuffered call is in progress.  Fields: the position of the caller
\* (pc), the position of the goroutine snapshot starts for each shard
\* (snap) and the keys its range loop has still to send (todo), the
\* channels of snapshot, the position of the goroutine fanIn starts for
\* each channel (fan) and the Tuple it has received and not yet sent
\* (held), the channel out, and the position of fanIn itself.
NoIter == [pc |-> "idle",
           snap |-> [i \in ShardIds |-> "none"],
           todo |-> [i \in ShardIds |-> {}],
           channels |-> [i \in ShardIds |-> NoChan],
           fan |-> [i \in ShardIds |-> "none"],
           held |-> [i \in ShardIds |-> NoTuple],
           out |-> NoChan,
           fanIn |-> "none"]

\* No Register / UnRegister call is in progress.  Fields of a call: the
\* function and the position in it, the instance it was called with, what
\* the request ended with (resp), result.Err (err), and what the last call
\* returned (ret): "nil" or "err", "none" before the first return.
NoApi == [op |-> "none", pc |-> "none", instance |-> NoRec, resp |-> NoResponse,
          err |-> "nil", ret |-> "none"]

\* NewBeatReactor: empty maps, a free semaphore, an unlocked mutex.  Records
\* come from NewInstance, which sets Status "UP".
Init ==
    /\ beatMap = EmptyMap
    /\ beatRecordMap = EmptyMap
    /\ status = [r \in Recs |-> "UP"]
    /\ sem = 0
    /\ tasks = EmptyBag
    /\ call = NoCall
    /\ now = 0
    /\ live = [k \in Keys |-> FALSE]
    /\ removed = [k \in Keys |-> FALSE]
    /\ shards = [i \in ShardIds |-> EmptyMap]
    /\ locks = [i \in ShardIds |-> Unlocked]
    /\ procs = [p \in Procs |-> Idle]
    /\ ctor = NoCtor
    /\ stamps = EmptyBag
    /\ api = NoApi
    /\ iter = NoIter

\* --------------------------------------------------------- NewBeatReactor

\* if clientBeatIntervalInSecs <= 0 { clientBeatIntervalInSecs = 5 }
NormalInterval(interval) == IF LeqZero(interval) THEN Small(5) ELSE interval

\* NewBeatReactor(config, clientBeatIntervalInSecs): the fields it sets that
\* depend on the argument or fix the limiter; capacity is the argument of
\* semaphore.NewWeighted.
NewBeatReactor(interval) ==
    /\ ctor' = [arg |-> interval,
                clientBeatIntervalInSecs |-> NormalInterval(interval),
                beatThreadCount |-> DefaultBeatThreadNum,
                capacity |-> DefaultBeatThreadNum,
                Period |-> Mul64(NormalInterval(interval), Second)]
    /\ UNCHANGED <<reactorVars, mapVars, clockVars, apiVars, bufVars>>

NextCtor == \E interval \in Intervals : NewBeatReactor(interval)

CtorSpec == Init /\ [][NextCtor]_vars

\* ------------------------------------------------------------ AddBeatInfo
\* A call holds br.mux from its first step to its return, so at most one
\* call is in progress; callers blocked in Lock have no effect yet.

\* The value AddBeatInfo writes to the Status of the record found in the map.
AddStatusMark == "UP"

\* k := beatInfo.InstanceID; Lock; data, ok := beatMap.Get(k); when ok the
\* argument is replaced by the stored record.
AddBeatInfoEnter(r) ==
    /\ call = NoCall
    /\ NumTasks < MaxTasks
    /\ LET k == InstanceID(r)
           g == Get(beatMap, k)
       IN /\ call' = [op |-> "add", pc |-> IF g.ok THEN "status" ELSE "set", arg |-> r,
                      k |-> k, beatInfo |-> IF g.ok THEN g.val ELSE r,
                      data |-> g.val, ok |-> g.ok]
          /\ live' = [live EXCEPT ![k] = FALSE]
          /\ removed' = [removed EXCEPT ![k] = FALSE]
          /\ tasks' = Rehist(tasks, k, 0)
    /\ UNCHANGED <<beatMap, beatRecordMap, status, sem, now, mapVars, ctorVars, clockVars, bufVars>>

\* AddBeatInfo is called by a caller other than Register.
AddBeatInfoGet(r) == AddBeatInfoEnter(r) /\ UNCHANGED apiVars

\* beatInfo.Status = "UP"
AddBeatInfoStatus ==
    /\ call.op = "add" /\ call.pc = "status"
    /\ status' = [status EXCEPT ![call.beatInfo] = AddStatusMark]
    /\ call' = [call EXCEPT !.pc = "remove"]
    /\ UNCHANGED <<beatMap, beatRecordMap, sem, tasks, now, live, removed, mapVars, ctorVars, clockVars, apiVars, bufVars>>

\* br.beatMap.Remove(k)
AddBeatInfoRemove ==
    /\ call.op = "add" /\ call.pc = "remove"
    /\ beatMap' = Remove(beatMap, call.k)
    /\ call' = [call EXCEPT !.pc = "set"]
    /\ UNCHANGED <<beatRecordMap, status, sem, tasks, now, live, removed, mapVars, ctorVars, clockVars, apiVars, bufVars>>

\* br.beatMap.Set(k, beatInfo)
AddBeatInfoSet ==
    /\ call.op = "add" /\ call.pc = "set"
    /\ beatMap' = Set(beatMap, call.k, call.beatInfo)
    /\ call' = [call EXCEPT !.pc = "go"]
    /\ UNCHANGED <<beatRecordMap, status, sem, tasks, now, live, removed, mapVars, ctorVars, clockVars, apiVars, bufVars>>

\* go br.sendInstanceBeat(k, beatInfo)
AddBeatInfoGo ==
    /\ call.op = "add" /\ call.pc = "go"
    /\ tasks' = tasks (+) SetToBag({Task("wait", call.beatInfo, 0)})
    /\ call' = [call EXCEPT !.pc = "unlock"]
    /\ live' = [live EXCEPT ![call.k] = TRUE]
    /\ UNCHANGED <<beatMap, beatRecordMap, status, sem, now, removed, mapVars, ctorVars, clockVars, apiVars, bufVars>>

\* the deferred br.mux.Unlock(): AddBeatInfo returns
AddBeatInfoLeave ==
    /\ call.op = "add" /\ call.pc = "unlock"
    /\ call' = NoCall
    /\ UNCHANGED <<beatMap, beatRecordMap, status, sem, tasks, now, live, removed, mapVars, ctorVars, clockVars, bufVars>>

\* AddBeatInfo returns to a caller other than Register.
AddBeatInfoReturn == AddBeatInfoLeave /\ UNCHANGED apiVars

\* --------------------------------------------------------- RemoveBeatInfo

\* The value RemoveBeatInfo writes to the Status of the record it removes.
RemoveStatusMark == "UP"

\* k := instanceId; Lock; data, exist := br.beatMap.Get(k)
RemoveBeatInfoEnter(k) ==
    /\ call = NoCall
    /\ LET g == Get(beatMap, k)
       IN call' = [op |-> "remove", pc |-> IF g.ok THEN "status" ELSE "remove",
                   arg |-> NoRec, k |-> k, beatInfo |-> g.val, data |-> g.val, ok |-> g.ok]
    /\ live' = [live EXCEPT ![k] = FALSE]
    /\ UNCHANGED <<beatMap, beatRecordMap, status, sem, tasks, now, removed, mapVars, ctorVars, clockVars, bufVars>>

\* RemoveBeatInfo is called by a caller other than UnRegister.
RemoveBeatInfoGet(k) == RemoveBeatInfoEnter(k) /\ UNCHANGED apiVars

\* beatInfo.Status = "UP"
RemoveBeatInfoStatus ==
    /\ call.op = "remove" /\ call.pc = "status"
    /\ status' = [status EXCEPT ![call.beatInfo] = RemoveStatusMark]
    /\ call' = [call EXCEPT !.pc = "remove"]
    /\ UNCHANGED <<beatMap, beatRecordMap, sem, tasks, now, live, removed, mapVars, ctorVars, clockVars, apiVars, bufVars>>

\* br.beatMap.Remove(k)
RemoveBeatInfoRemove ==
    /\ call.op = "remove" /\ call.pc = "remove"
    /\ beatMap' = Remove(beatMap, call.k)
    /\ call' = [call EXCEPT !.pc = "unlock"]
    /\ UNCHANGED <<beatRecordMap, status, sem, tasks, now, live, removed, mapVars, ctorVars, clockVars, apiVars, bufVars>>

\* the deferred br.mux.Unlock(): RemoveBeatInfo returns
RemoveBeatInfoLeave ==
    /\ call.op = "remove" /\ call.pc = "unlock"
    /\ call' = NoCall
    /\ removed' = IF call.ok THEN [removed EXCEPT ![call.k] = TRUE] ELSE removed
    /\ tasks' = IF call.ok THEN Rehist(tasks, call.k, 0) ELSE tasks
    /\ UNCHANGED <<beatMap, beatRecordMap, status, sem, now, live, mapVars, ctorVars, clockVars, bufVars>>

\* RemoveBeatInfo returns to a caller other than UnRegister.
RemoveBeatInfoReturn == RemoveBeatInfoLeave /\ UNCHANGED apiVars

\* ------------------------------------------------------- sendInstanceBeat

\* Goroutines holding a slot they acquired: from Acquire to the Release (or
\* the return) that ends the attempt.
InAttempt == NumAt({"check", "beat", "notfound", "set"})

\* Heartbeat calls in flight: from Acquire to the return of Heartbeat.
InFlight == NumAt({"check", "beat"})

\* Acquire as it would be with a semaphore that never blocks.
AcquireUnbounded(x) ==
    /\ PcOf(x) = "wait" /\ BagIn(x, tasks)
    /\ sem' = sem + 1
    /\ Move(x, Task("check", BeatInfoOf(x), AfterRm(x)))
    /\ UNCHANGED <<beatMap, beatRecordMap, status, call, now, live, removed, mapVars, ctorVars, clockVars, apiVars, bufVars>>

\* err := br.beatThreadSemaphore.Acquire(ctx, 1), once the timer of the
\* previous round has fired: blocks while all slots are held; ctx is
\* context.Background(), so it never fails.
Acquire(x) ==
    /\ PcOf(x) = "wait" /\ BagIn(x, tasks)
    /\ sem < BeatThreadCount
    /\ sem' = sem + 1
    /\ Move(x, Task("check", BeatInfoOf(x), AfterRm(x)))
    /\ UNCHANGED <<beatMap, beatRecordMap, status, call, now, live, removed, mapVars, ctorVars, clockVars, apiVars, bufVars>>

\* if beatInfo.Status != "UP" { Release(1); return }; otherwise Heartbeat
\* is called.
CheckStatus(x) ==
    /\ PcOf(x) = "check" /\ BagIn(x, tasks)
    /\ IF status[BeatInfoOf(x)] # "UP"
       THEN /\ sem' = sem - 1
            /\ Move(x, Task("exit", BeatInfoOf(x), 0))
       ELSE /\ sem' = sem
            /\ Move(x, Task("beat", BeatInfoOf(x),
                            IF removed[KeyOf(x)] THEN 1 ELSE 0))
    /\ UNCHANGED <<beatMap, beatRecordMap, status, call, now, live, removed, mapVars, ctorVars, clockVars, apiVars, bufVars>>

\* Heartbeat: a transport error is returned as is, 200 is nil, 404 is
\* ErrNotFound, any other status an error.
Heartbeat(resp) ==
    IF resp = NoResponse THEN "err"
    ELSE IF resp = 200 THEN "nil"
    ELSE IF resp = 404 THEN "ErrNotFound"
    ELSE "err"

\* BeatNotFound as it would be if the time of the beat were recorded before
\* the error is looked at.
BeatNotFoundRecords(x, resp) ==
    /\ PcOf(x) = "beat" /\ BagIn(x, tasks)
    /\ Heartbeat(resp) = "ErrNotFound"
    /\ beatRecordMap' = Set(beatRecordMap, KeyOf(x), now)
    /\ Move(x, Task("notfound", BeatInfoOf(x), AfterRm(x)))
    /\ live' = [live EXCEPT ![KeyOf(x)] = FALSE]
    /\ UNCHANGED <<beatMap, status, sem, call, now, removed, mapVars, ctorVars, clockVars, apiVars, bufVars>>

\* Heartbeat returns ErrNotFound.
BeatNotFound(x, resp) ==
    /\ PcOf(x) = "beat" /\ BagIn(x, tasks)
    /\ Heartbeat(resp) = "ErrNotFound"
    /\ Move(x, Task("notfound", BeatInfoOf(x), AfterRm(x)))
    /\ live' = [live EXCEPT ![KeyOf(x)] = FALSE]
    /\ UNCHANGED <<beatMap, beatRecordMap, status, sem, call, now, removed, mapVars, ctorVars, clockVars, apiVars, bufVars>>

\* HandleNotFound as it would be if ErrNotFound were retried like any
\* other error.
HandleNotFoundRetry(x) ==
    /\ PcOf(x) = "notfound" /\ BagIn(x, tasks)
    /\ sem' = sem - 1
    /\ Move(x, Task("wait", BeatInfoOf(x), AfterRm(x)))
    /\ UNCHANGED <<beatMap, beatRecordMap, status, call, now, live, removed, mapVars, ctorVars, clockVars, apiVars, bufVars>>

\* errors.Is(err, ErrNotFound): br.beatMap.Remove(k); return
HandleNotFound(x) ==
    /\ PcOf(x) = "notfound" /\ BagIn(x, tasks)
    /\ beatMap' = Remove(beatMap, KeyOf(x))
    /\ Move(x, Task("exit", BeatInfoOf(x), 0))
    /\ UNCHANGED <<beatRecordMap, status, sem, call, now, live, removed, mapVars, ctorVars, clockVars, apiVars, bufVars>>

\* Heartbeat returns another error: Release(1), then t := NewTimer(Period)
BeatError(x, resp) ==
    /\ PcOf(x) = "beat" /\ BagIn(x, tasks)
    /\ Heartbeat(resp) = "err"
    /\ sem' = sem - 1
    /\ Move(x, Task("wait", BeatInfoOf(x), AfterRm(x)))
    /\ UNCHANGED <<beatMap, beatRecordMap, status, call, now, live, removed, mapVars, ctorVars, clockVars, apiVars, bufVars>>

\* Heartbeat returns nil: br.beatRecordMap.Set(k, time.Now()...);
\* Release(1), then t := NewTimer(Period)
BeatOk(x, resp) ==
    /\ PcOf(x) = "beat" /\ BagIn(x, tasks)
    /\ Heartbeat(resp) = "nil"
    /\ beatRecordMap' = Set(beatRecordMap, KeyOf(x), now)
    /\ sem' = sem - 1
    /\ Move(x, Task("wait", BeatInfoOf(x), AfterRm(x)))
    /\ UNCHANGED <<beatMap, status, call, now, live, removed, mapVars, ctorVars, clockVars, apiVars, bufVars>>

\* --------------------------------------------------------- specifications

\* A step of a call in progress.
CallStep ==
    \/ AddBeatInfoStatus
    \/ AddBeatInfoRemove
    \/ AddBeatInfoSet
    \/ AddBeatInfoGo
    \/ AddBeatInfoReturn
    \/ RemoveBeatInfoStatus
    \/ RemoveBeatInfoRemove
    \/ RemoveBeatInfoReturn

\* Heartbeat of a goroutine at x returns, and what follows up to the Release.
HeartbeatReturn(x, resp) ==
    \/ BeatOk(x, resp)
    \/ BeatError(x, resp)
    \/ BeatNotFound(x, resp)

Next ==
    \/ \E r \in Recs : AddBeatInfoGet(r)
    \/ \E k \in Keys : RemoveBeatInfoGet(k)
    \/ CallStep
    \/ \E x \in DOMAIN tasks : Acquire(x)
    \/ \E x \in DOMAIN tasks : CheckStatus(x)
    \/ \E x \in DOMAIN tasks : HandleNotFound(x)
    \/ \E x \in DOMAIN tasks : \E resp \in Responses : HeartbeatReturn(x, resp)

Spec == Init /\ [][Next]_vars

\* Go runs every runnable goroutine, timers fire, every Heartbeat call
\* returns, a call in progress runs to its return, and the semaphore serves
\* its waiters in order.
StatesAt(p) == {x \in TaskStates : PcOf(x) = p}

Fairness ==
    /\ WF_vars(CallStep)
    /\ \A x \in StatesAt("wait") : SF_vars(Acquire(x))
    /\ \A x \in StatesAt("check") : WF_vars(CheckStatus(x))
    /\ \A x \in StatesAt("notfound") : WF_vars(HandleNotFound(x))
    /\ \A x \in StatesAt("beat") : WF_vars(\E resp \in Responses : HeartbeatReturn(x, resp))

FairSpec == Spec /\ Fairness

\* The registry answers every heartbeat of K1 with a transient failure,
\* and nobody removes K1; the other keys are as in Spec.
TransientResponses(x) == IF KeyOf(x) = K1 THEN {NoResponse, 500} ELSE Responses

NextTransient ==
    \/ \E r \in Recs : AddBeatInfoGet(r)
    \/ \E k \in Keys \ {K1} : RemoveBeatInfoGet(k)
    \/ CallStep
    \/ \E x \in DOMAIN tasks : Acquire(x)
    \/ \E x \in DOMAIN tasks : CheckStatus(x)
    \/ \E x \in DOMAIN tasks : HandleNotFound(x)
    \/ \E x \in DOMAIN tasks : \E resp \in TransientResponses(x) : HeartbeatReturn(x, resp)

FairnessTransient ==
    /\ WF_vars(CallStep)
    /\ \A x \in StatesAt("wait") : SF_vars(Acquire(x))
    /\ \A x \in StatesAt("check") : WF_vars(CheckStatus(x))
    /\ \A x \in StatesAt("notfound") : WF_vars(HandleNotFound(x))
    /\ \A x \in StatesAt("beat") : WF_vars(\E resp \in TransientResponses(x) : HeartbeatReturn(x, resp))

TransientSpec == Init /\ [][NextTransient]_vars /\ FairnessTransient

\* ------------------------------------------------------- the clock advances
\* The registry answers every heartbeat with 200 and callers only add, while
\* time passes.  br.beatRecordMap.Set(k, time.Now().UnixNano()/1e6) is two
\* steps: the argument is evaluated, then Set takes the lock of the shard.

\* Time passes; the clock never goes back.
Tick ==
    /\ now < MaxNow
    /\ now' = now + 1
    /\ UNCHANGED <<beatMap, beatRecordMap, status, sem, tasks, call, live, removed,
                   mapVars, ctorVars, clockVars, apiVars, bufVars>>

\* Heartbeat returns nil; time.Now().UnixNano()/1e6 is evaluated.
BeatOkNow(x, resp) ==
    /\ PcOf(x) = "beat" /\ BagIn(x, tasks)
    /\ Heartbeat(resp) = "nil"
    /\ stamps' = stamps (+) SetToBag({<<BeatInfoOf(x), now>>})
    /\ Move(x, Task("set", BeatInfoOf(x), AfterRm(x)))
    /\ UNCHANGED <<beatMap, beatRecordMap, status, sem, call, now, live, removed,
                   mapVars, ctorVars, apiVars, bufVars>>

\* br.beatRecordMap.Set(k, t) with the time t read before; Release(1), then
\* t := NewTimer(Period)
BeatOkSet(x, t) ==
    /\ PcOf(x) = "set" /\ BagIn(x, tasks)
    /\ BagIn(<<BeatInfoOf(x), t>>, stamps)
    /\ beatRecordMap' = Set(beatRecordMap, KeyOf(x), t)
    /\ stamps' = stamps (-) SetToBag({<<BeatInfoOf(x), t>>})
    /\ sem' = sem - 1
    /\ Move(x, Task("wait", BeatInfoOf(x), AfterRm(x)))
    /\ UNCHANGED <<beatMap, status, call, now, live, removed, mapVars, ctorVars, apiVars, bufVars>>

\* A step of an AddBeatInfo in progress.
AddStep ==
    \/ AddBeatInfoStatus
    \/ AddBeatInfoRemove
    \/ AddBeatInfoSet
    \/ AddBeatInfoGo
    \/ AddBeatInfoReturn

NextClock ==
    \/ \E r \in Recs : AddBeatInfoGet(r)
    \/ AddStep
    \/ Tick
    \/ \E x \in DOMAIN tasks : Acquire(x)
    \/ \E x \in DOMAIN tasks : CheckStatus(x)
    \/ \E x \in DOMAIN tasks : BeatOkNow(x, 200)
    \/ \E x \in DOMAIN tasks : \E t \in 0 .. MaxNow : BeatOkSet(x, t)

ClockSpec == Init /\ [][NextClock]_vars

\* --------------------------------------------------- Register, UnRegister
\* One client calls Register and UnRegister, one call at a time; every
\* instance has its Beater set.  The registry answers a request with a
\* status code, or the request fails in transport (NoResponse).

\* What a POST or DELETE ends with.
ApiResponses == {NoResponse, 200, 204, 404, 500}

\* requests: Send().Status2xx() leaves result.Err nil when the request got a
\* response with a status 200 .. 299.
Status2xx(resp) == IF resp # NoResponse /\ resp >= 200 /\ resp <= 299 THEN "nil" ELSE "err"

\* requests: Send().StatusOk() leaves result.Err nil when the request got a
\* response with status 200.
StatusOk(resp) == IF resp = 200 THEN "nil" ELSE "err"

\* The call c returns e.
Returned(c, e) == [NoApi EXCEPT !.ret = e]

\* RegisterSend as it would be if AddBeatInfo were called whatever the POST
\* ended with.
RegisterSendAlways(r, urlOk, resp) ==
    /\ api.op = "none"
    /\ NumTasks < MaxTasks
    /\ api' = [op |-> "Register", pc |-> "call", instance |-> r, resp |-> resp,
                err |-> Status2xx(resp), ret |-> api.ret]
    /\ UNCHANGED <<reactorVars, mapVars, ctorVars, clockVars, bufVars>>

\* Register up to the test of result.Err: when buildURL fails (urlOk is
\* false) its error is returned and nothing is sent; otherwise the POST is
\* sent, and when result.Err is not nil it is returned.
RegisterSend(r, urlOk, resp) ==
    /\ api.op = "none"
    /\ NumTasks < MaxTasks
    /\ api' = IF ~urlOk THEN Returned(api, "err")
              ELSE IF Status2xx(resp) # "nil" THEN Returned(api, Status2xx(resp))
              ELSE [op |-> "Register", pc |-> "call", instance |-> r, resp |-> resp,
                    err |-> Status2xx(resp), ret |-> api.ret]
    /\ UNCHANGED <<reactorVars, mapVars, ctorVars, clockVars, bufVars>>

\* instance.Beater.AddBeatInfo(instance), up to beatMap.Get
RegisterAddBeatInfo ==
    /\ api.op = "Register" /\ api.pc = "call"
    /\ AddBeatInfoEnter(api.instance)
    /\ api' = [api EXCEPT !.pc = "in"]

\* AddBeatInfo returns; return result.Err
RegisterReturn ==
    /\ api.op = "Register" /\ api.pc = "in"
    /\ AddBeatInfoLeave
    /\ api' = Returned(api, api.err)

\* UnRegister up to the test of result.Err, like RegisterSend with DELETE
\* and StatusOk.
UnRegisterSend(r, urlOk, resp) ==
    /\ api.op = "none"
    /\ api' = IF ~urlOk THEN Returned(api, "err")
              ELSE IF StatusOk(resp) # "nil" THEN Returned(api, StatusOk(resp))
              ELSE [op |-> "UnRegister", pc |-> "call", instance |-> r, resp |-> resp,
                    err |-> StatusOk(resp), ret |-> api.ret]
    /\ UNCHANGED <<reactorVars, mapVars, ctorVars, clockVars, bufVars>>

\* instance.Beater.RemoveBeatInfo(app, instance.InstanceID), up to
\* beatMap.Get
UnRegisterRemoveBeatInfo ==
    /\ api.op = "UnRegister" /\ api.pc = "call"
    /\ RemoveBeatInfoEnter(InstanceID(api.instance))
    /\ api' = [api EXCEPT !.pc = "in"]

\* RemoveBeatInfo returns; return result.Err
UnRegisterReturn ==
    /\ api.op = "UnRegister" /\ api.pc = "in"
    /\ RemoveBeatInfoLeave
    /\ api' = Returned(api, api.err)

\* A step of the AddBeatInfo or RemoveBeatInfo that Register or UnRegister
\* called, before its return.
InnerStep ==
    \/ AddBeatInfoStatus
    \/ AddBeatInfoRemove
    \/ AddBeatInfoSet
    \/ AddBeatInfoGo
    \/ RemoveBeatInfoStatus
    \/ RemoveBeatInfoRemove

\* The client registers and unregisters while the registry answers every
\* heartbeat with 200.
NextApi ==
    \/ \E r \in Recs, urlOk \in BOOLEAN, resp \in ApiResponses : RegisterSend(r, urlOk, resp)
    \/ RegisterAddBeatInfo
    \/ RegisterReturn
    \/ \E r \in Recs, urlOk \in BOOLEAN, resp \in ApiResponses : UnRegisterSend(r, urlOk, resp)
    \/ UnRegisterRemoveBeatInfo
    \/ UnRegisterReturn
    \/ InnerStep
    \/ \E x \in DOMAIN tasks : Acquire(x)
    \/ \E x \in DOMAIN tasks : CheckStatus(x)
    \/ \E x \in DOMAIN tasks : BeatOk(x, 200)

ApiSpec == Init /\ [][NextApi]_vars

\* ------------------------------------------- ConcurrentMap and its callers
\* Every caller runs one operation at a time; an operation is a sequence of
\* steps, one per access to a lock or to the items of a shard.  sync.RWMutex
\* is modelled by what it guarantees: Lock waits until there is neither a
\* writer nor a reader, RLock until there is no writer.

\* The keys stored in the map sh, the entries stored, and their number.
StoredKeys(sh) == UNION {DOMAIN sh[i] : i \in ShardIds}

Entries(sh) == UNION {{<<k, sh[i][k]>> : k \in DOMAIN sh[i]} : i \in ShardIds}

RECURSIVE SumLen(_, _)
SumLen(sh, n) == IF n = 0 THEN 0 ELSE Cardinality(DOMAIN sh[n - 1]) + SumLen(sh, n - 1)

\* The callers ps once the map has become sh: the histories of the calls
\* that enumerate are brought up to date.
Observe(ps, sh) ==
    [q \in Procs |->
        IF ps[q].op \in {"Count", "IsEmpty"}
        THEN [ps[q] EXCEPT !.seen = @ \cup {Cardinality(StoredKeys(sh))}]
        ELSE IF ps[q].op \in {"Keys", "Items"}
        THEN [ps[q] EXCEPT !.always = @ \cap Entries(sh), !.never = @ \ StoredKeys(sh)]
        ELSE ps[q]]

In(p, op, pc) == procs[p].op = op /\ procs[p].pc = pc

\* A caller that is not in a call starts one.
Begin(p, c) ==
    /\ procs[p] = Idle
    /\ procs' = [procs EXCEPT ![p] = c]
    /\ UNCHANGED <<shards, locks, reactorVars, ctorVars, clockVars, apiVars, bufVars>>

\* WLock as it would be if Lock did not wait for the readers to leave.
WLockOverReaders(p, next) ==
    LET s == GetShard(procs[p].key)
    IN /\ procs[p].pc = "lock"
       /\ ~locks[s].w
       /\ locks' = [locks EXCEPT ![s].w = TRUE]
       /\ procs' = [procs EXCEPT ![p].pc = next]
       /\ UNCHANGED <<shards, reactorVars, ctorVars, clockVars, apiVars, bufVars>>

\* shard := m.GetShard(key); shard.Lock()
WLock(p, next) ==
    LET s == GetShard(procs[p].key)
    IN /\ procs[p].pc = "lock"
       /\ ~locks[s].w /\ locks[s].r = 0
       /\ locks' = [locks EXCEPT ![s].w = TRUE]
       /\ procs' = [procs EXCEPT ![p].pc = next]
       /\ UNCHANGED <<shards, reactorVars, ctorVars, clockVars, apiVars, bufVars>>

\* shard.Unlock(), and the return
WUnlock(p) ==
    /\ procs[p].pc = "unlock"
    /\ locks' = [locks EXCEPT ![GetShard(procs[p].key)].w = FALSE]
    /\ procs' = [procs EXCEPT ![p] = Idle]
    /\ UNCHANGED <<shards, reactorVars, ctorVars, clockVars, apiVars, bufVars>>

\* The map sh after shard.items[key] = value in the shard of key.
Stored(sh, key, value) == [sh EXCEPT ![GetShard(key)] = Set(@, key, value)]

\* Deleted as it would be if the shard were emptied instead.
DeletedShard(sh, key) == [sh EXCEPT ![GetShard(key)] = EmptyMap]

\* The map sh after delete(shard.items, key) in the shard of key.
Deleted(sh, key) == [sh EXCEPT ![GetShard(key)] = Remove(@, key)]

\* val, ok := shard.items[key] in the shard of key, nil for a missing key.
Lookup(sh, key) ==
    LET g == Get(sh[GetShard(key)], key)
    IN [val |-> IF g.ok THEN g.val ELSE NoVal, ok |-> g.ok]

\* A step that leaves the map as sh.
Mutate(p, sh) ==
    /\ shards' = sh
    /\ procs' = Observe([procs EXCEPT ![p].pc = "unlock"], shards')
    /\ UNCHANGED <<locks, reactorVars, ctorVars, clockVars, apiVars, bufVars>>

\* v, ok := shard.items[key]
ReadKey(p, next) ==
    LET g == Lookup(shards, procs[p].key)
    IN /\ procs[p].pc = "read"
       /\ procs' = [procs EXCEPT ![p].val = g.val,
                                 ![p].ok = g.ok,
                                 ![p].pc = next[g.ok]]
       /\ UNCHANGED <<shards, locks, reactorVars, ctorVars, clockVars, apiVars, bufVars>>

\* ---- Set
SetCall(p, k, v) == Begin(p, [Idle EXCEPT !.op = "Set", !.pc = "lock", !.key = k, !.value = v])

SetLock(p) == procs[p].op = "Set" /\ WLock(p, "store")

\* shard.items[key] = value
SetStore(p) == In(p, "Set", "store") /\ Mutate(p, Stored(shards, procs[p].key, procs[p].value))

SetUnlock(p) == procs[p].op = "Set" /\ WUnlock(p)

\* ---- Remove
RemoveCall(p, k) == Begin(p, [Idle EXCEPT !.op = "Remove", !.pc = "lock", !.key = k])

RemoveLock(p) == procs[p].op = "Remove" /\ WLock(p, "delete")

\* delete(shard.items, key)
RemoveDelete(p) == In(p, "Remove", "delete") /\ Mutate(p, Deleted(shards, procs[p].key))

RemoveUnlock(p) == procs[p].op = "Remove" /\ WUnlock(p)

\* ---- SetIfAbsent
SetIfAbsentCall(p, k, v) ==
    Begin(p, [Idle EXCEPT !.op = "SetIfAbsent", !.pc = "lock", !.key = k, !.value = v])

\* SetIfAbsentLock as it would be if the shard were not locked.
SetIfAbsentNoLock(p) ==
    /\ In(p, "SetIfAbsent", "lock")
    /\ procs' = [procs EXCEPT ![p].pc = "read"]
    /\ UNCHANGED <<shards, locks, reactorVars, ctorVars, clockVars, apiVars, bufVars>>

SetIfAbsentLock(p) == procs[p].op = "SetIfAbsent" /\ WLock(p, "read")

\* _, ok := shard.items[key]; if !ok { ... }
SetIfAbsentRead(p) ==
    procs[p].op = "SetIfAbsent" /\ ReadKey(p, [b \in BOOLEAN |-> IF b THEN "unlock" ELSE "store"])

\* shard.items[key] = value
SetIfAbsentStore(p) ==
    In(p, "SetIfAbsent", "store") /\ Mutate(p, Stored(shards, procs[p].key, procs[p].value))

\* shard.Unlock(); return !ok
SetIfAbsentUnlock(p) == procs[p].op = "SetIfAbsent" /\ WUnlock(p)

\* ---- Pop
PopCall(p, k) == Begin(p, [Idle EXCEPT !.op = "Pop", !.pc = "lock", !.key = k])

\* PopLock as it would be if the shard were not locked.
PopNoLock(p) ==
    /\ In(p, "Pop", "lock")
    /\ procs' = [procs EXCEPT ![p].pc = "read"]
    /\ UNCHANGED <<shards, locks, reactorVars, ctorVars, clockVars, apiVars, bufVars>>

PopLock(p) == procs[p].op = "Pop" /\ WLock(p, "read")

\* v, exists = shard.items[key]
PopRead(p) == procs[p].op = "Pop" /\ ReadKey(p, [b \in BOOLEAN |-> "delete"])

\* delete(shard.items, key)
PopDelete(p) == In(p, "Pop", "delete") /\ Mutate(p, Deleted(shards, procs[p].key))

\* shard.Unlock(); return v, exists
PopUnlock(p) == procs[p].op = "Pop" /\ WUnlock(p)

\* ---- Upsert
\* The callback the callers pass: add the new value to the stored one.
UpsertCb(exist, valueInMap, newValue) == IF exist THEN valueInMap + newValue ELSE newValue

\* The largest value stored, 0 for an empty map.
MaxStored == LET vs == {e[2] : e \in Entries(shards)} \cup {0}
             IN CHOOSE v \in vs : \A w \in vs : w <= v

UpsertCall(p, k, v) ==
    /\ MaxStored + v * (1 + Cardinality({q \in Procs : procs[q].op = "Upsert"})) <= MaxVal
    /\ Begin(p, [Idle EXCEPT !.op = "Upsert", !.pc = "lock", !.key = k, !.value = v])

\* UpsertLock as it would be if the shard were not locked.
UpsertNoLock(p) ==
    /\ In(p, "Upsert", "lock")
    /\ procs' = [procs EXCEPT ![p].pc = "read"]
    /\ UNCHANGED <<shards, locks, reactorVars, ctorVars, clockVars, apiVars, bufVars>>

UpsertLock(p) == procs[p].op = "Upsert" /\ WLock(p, "read")

\* v, ok := shard.items[key]
UpsertRead(p) == procs[p].op = "Upsert" /\ ReadKey(p, [b \in BOOLEAN |-> "store"])

\* res = cb(ok, v, value); shard.items[key] = res
UpsertStore(p) ==
    /\ In(p, "Upsert", "store")
    /\ Mutate(p, Stored(shards, procs[p].key, UpsertCb(procs[p].ok, procs[p].val, procs[p].value)))

\* shard.Unlock(); return res
UpsertUnlock(p) == procs[p].op = "Upsert" /\ WUnlock(p)

\* ---- Get
GetCall(p, k) == Begin(p, [Idle EXCEPT !.op = "Get", !.pc = "rlock", !.key = k])

\* shard := m.GetShard(key); shard.RLock()
GetRLock(p) ==
    LET s == GetShard(procs[p].key)
    IN /\ In(p, "Get", "rlock")
       /\ ~locks[s].w
       /\ locks' = [locks EXCEPT ![s].r = @ + 1]
       /\ procs' = [procs EXCEPT ![p].pc = "read"]
       /\ UNCHANGED <<shards, reactorVars, ctorVars, clockVars, apiVars, bufVars>>

\* val, ok := shard.items[key]
GetRead(p) == procs[p].op = "Get" /\ ReadKey(p, [b \in BOOLEAN |-> "runlock"])

\* shard.RUnlock(); return val, ok
GetRUnlock(p) ==
    /\ In(p, "Get", "runlock")
    /\ locks' = [locks EXCEPT ![GetShard(procs[p].key)].r = @ - 1]
    /\ procs' = [procs EXCEPT ![p] = Idle]
    /\ UNCHANGED <<shards, reactorVars, ctorVars, clockVars, apiVars, bufVars>>

\* The callers use the operations on single keys.
KeyOpCall(p) ==
    \/ \E k \in MapKeys, v \in Vals : SetCall(p, k, v)
    \/ \E k \in MapKeys : RemoveCall(p, k)
    \/ \E k \in MapKeys, v \in Vals : SetIfAbsentCall(p, k, v)
    \/ \E k \in MapKeys : PopCall(p, k)
    \/ \E k \in MapKeys : UpsertCall(p, k, 1)
    \/ \E k \in MapKeys : GetCall(p, k)

KeyOpStep(p) ==
    \/ SetLock(p) \/ SetStore(p) \/ SetUnlock(p)
    \/ RemoveLock(p) \/ RemoveDelete(p) \/ RemoveUnlock(p)
    \/ SetIfAbsentLock(p) \/ SetIfAbsentRead(p) \/ SetIfAbsentStore(p) \/ SetIfAbsentUnlock(p)
    \/ PopLock(p) \/ PopRead(p) \/ PopDelete(p) \/ PopUnlock(p)
    \/ UpsertLock(p) \/ UpsertRead(p) \/ UpsertStore(p) \/ UpsertUnlock(p)
    \/ GetRLock(p) \/ GetRead(p) \/ GetRUnlock(p)

\* ---- Count, IsEmpty, and the m.Count() that Keys begins with
CountCall(p) ==
    Begin(p, [Idle EXCEPT !.op = "Count", !.pc = "rlock",
                          !.seen = {Cardinality(StoredKeys(shards))}])

\* IsEmpty: return m.Count() == 0
IsEmptyCall(p) ==
    Begin(p, [Idle EXCEPT !.op = "IsEmpty", !.pc = "rlock",
                          !.seen = {Cardinality(StoredKeys(shards))}])

\* shard := m[i]; shard.RLock()
CountRLock(p) ==
    LET i == procs[p].i
    IN /\ procs[p].op \in {"Count", "IsEmpty", "Keys"} /\ procs[p].pc = "rlock"
       /\ ~locks[i].w
       /\ locks' = [locks EXCEPT ![i].r = @ + 1]
       /\ procs' = [procs EXCEPT ![p].pc = "len"]
       /\ UNCHANGED <<shards, reactorVars, ctorVars, clockVars, apiVars, bufVars>>

\* CountLen as it would be with count = len(shard.items).
CountLenLast(p) ==
    /\ procs[p].op \in {"Count", "IsEmpty", "Keys"} /\ procs[p].pc = "len"
    /\ procs' = [procs EXCEPT ![p].count = Cardinality(DOMAIN shards[procs[p].i]),
                              ![p].pc = "runlock"]
    /\ UNCHANGED <<shards, locks, reactorVars, ctorVars, clockVars, apiVars, bufVars>>

\* count += len(shard.items)
CountLen(p) ==
    /\ procs[p].op \in {"Count", "IsEmpty", "Keys"} /\ procs[p].pc = "len"
    /\ procs' = [procs EXCEPT ![p].count = @ + Cardinality(DOMAIN shards[procs[p].i]),
                              ![p].pc = "runlock"]
    /\ UNCHANGED <<shards, locks, reactorVars, ctorVars, clockVars, apiVars, bufVars>>

\* shard.RUnlock(); i++; after the last shard Count and IsEmpty return,
\* Keys goes on with its loop over the shards.
CountRUnlock(p) ==
    LET i == procs[p].i
    IN /\ procs[p].op \in {"Count", "IsEmpty", "Keys"} /\ procs[p].pc = "runlock"
       /\ locks' = [locks EXCEPT ![i].r = @ - 1]
       /\ procs' = [procs EXCEPT ![p] =
                        IF i + 1 < ShardCount THEN [@ EXCEPT !.i = i + 1, !.pc = "rlock"]
                        ELSE IF @.op = "Keys" THEN [@ EXCEPT !.i = 0, !.pc = "rangelock"]
                        ELSE Idle]
       /\ UNCHANGED <<shards, reactorVars, ctorVars, clockVars, apiVars, bufVars>>

\* ---- the loops of Keys, Items and IterCb over the shards
\* RangeRLock as it would be if the shard were not locked.
RangeNoRLock(p) ==
    LET i == procs[p].i
    IN /\ procs[p].pc = "rangelock"
       /\ procs' = [procs EXCEPT ![p].todo = DOMAIN shards[i],
                                 ![p].pc = IF DOMAIN shards[i] = {} THEN "rangeunlock" ELSE "range"]
       /\ UNCHANGED <<shards, locks, reactorVars, ctorVars, clockVars, apiVars, bufVars>>

\* shard.RLock(); for key, value := range shard.items
RangeRLock(p) ==
    LET i == procs[p].i
    IN /\ procs[p].pc = "rangelock"
       /\ ~locks[i].w
       /\ locks' = [locks EXCEPT ![i].r = @ + 1]
       /\ procs' = [procs EXCEPT ![p].todo = DOMAIN shards[i],
                                 ![p].pc = IF DOMAIN shards[i] = {} THEN "rangeunlock" ELSE "range"]
       /\ UNCHANGED <<shards, reactorVars, ctorVars, clockVars, apiVars, bufVars>>

\* One round of the range loop, for the key k, leaving acc as the result.
RangeNext(p, k, acc) ==
    /\ procs[p].pc = "range"
    /\ k \in procs[p].todo
    /\ procs' = [procs EXCEPT ![p].todo = @ \ {k},
                              ![p].acc = acc,
                              ![p].pc = IF procs[p].todo = {k} THEN "rangeunlock" ELSE "range"]
    /\ UNCHANGED <<shards, locks, reactorVars, ctorVars, clockVars, apiVars, bufVars>>

\* shard.RUnlock(); the next shard, or the return
RangeRUnlock(p) ==
    LET i == procs[p].i
    IN /\ procs[p].pc = "rangeunlock"
       /\ locks' = [locks EXCEPT ![i].r = @ - 1]
       /\ procs' = [procs EXCEPT ![p] =
                        IF i + 1 < ShardCount THEN [@ EXCEPT !.i = i + 1, !.pc = "rangelock"]
                        ELSE Idle]
       /\ UNCHANGED <<shards, reactorVars, ctorVars, clockVars, apiVars, bufVars>>

\* ---- Keys
\* count := m.Count(); keys := make([]string, 0, count)
KeysCall(p) ==
    Begin(p, [Idle EXCEPT !.op = "Keys", !.pc = "rlock",
                          !.always = StoredKeys(shards), !.never = MapKeys \ StoredKeys(shards)])

KeysRLock(p) == procs[p].op = "Keys" /\ RangeRLock(p)

\* keys = append(keys, key)
KeysAppend(p, k) == procs[p].op = "Keys" /\ RangeNext(p, k, procs[p].acc (+) SetToBag({k}))

KeysRUnlock(p) == procs[p].op = "Keys" /\ RangeRUnlock(p)

\* ---- Items
\* tmp := make(map[string]interface{})
ItemsCall(p) ==
    Begin(p, [Idle EXCEPT !.op = "Items", !.pc = "rangelock",
                          !.always = Entries(shards), !.never = MapKeys \ StoredKeys(shards)])

ItemsRLock(p) == procs[p].op = "Items" /\ RangeRLock(p)

\* tmp[k] = v
ItemsCopy(p, k) ==
    /\ procs[p].op = "Items"
    /\ RangeNext(p, k, Set(procs[p].acc, k, Get(shards[procs[p].i], k).val))

ItemsRUnlock(p) == procs[p].op = "Items" /\ RangeRUnlock(p)

\* ---- IterCb; the callback records what it is called with
IterCbCall(p) == Begin(p, [Idle EXCEPT !.op = "IterCb", !.pc = "rangelock"])

\* IterCbRLock as it would be if the shard were not locked.
IterCbNoRLock(p) == procs[p].op = "IterCb" /\ RangeNoRLock(p)

IterCbRLock(p) == procs[p].op = "IterCb" /\ RangeRLock(p)

\* fn(key, value)
IterCbFn(p, k) ==
    /\ procs[p].op = "IterCb"
    /\ RangeNext(p, k, procs[p].acc (+) SetToBag({<<k, Get(shards[procs[p].i], k).val>>}))

IterCbRUnlock(p) == procs[p].op = "IterCb" /\ RangeRUnlock(p)

\* One caller enumerates the map while the others Set and Remove.
Enumerators == {1}

IterCall(p) ==
    \/ CountCall(p) \/ IsEmptyCall(p) \/ KeysCall(p) \/ ItemsCall(p) \/ IterCbCall(p)

IterStep(p) ==
    \/ CountRLock(p) \/ CountLen(p) \/ CountRUnlock(p)
    \/ KeysRLock(p) \/ KeysRUnlock(p) \/ (\E k \in MapKeys : KeysAppend(p, k))
    \/ ItemsRLock(p) \/ ItemsRUnlock(p) \/ (\E k \in MapKeys : ItemsCopy(p, k))
    \/ IterCbRLock(p) \/ IterCbRUnlock(p) \/ (\E k \in MapKeys : IterCbFn(p, k))

MutateCall(p) ==
    \/ \E k \in MapKeys, v \in Vals : SetCall(p, k, v)
    \/ \E k \in MapKeys : RemoveCall(p, k)

MutateStep(p) ==
    \/ SetLock(p) \/ SetStore(p) \/ SetUnlock(p)
    \/ RemoveLock(p) \/ RemoveDelete(p) \/ RemoveUnlock(p)

NextIter ==
    \/ \E p \in Enumerators : IterCall(p) \/ IterStep(p)
    \/ \E p \in Procs \ Enumerators : MutateCall(p) \/ MutateStep(p)

IterSpec == Init /\ [][NextIter]_vars

NextMap == \E p \in Procs : KeyOpCall(p) \/ KeyOpStep(p)

MapSpec == Init /\ [][NextMap]_vars

\* ---- IterBuffered, snapshot, fanIn
\* A send on a channel blocks while the channel holds cap Tuples.
HasRoom(c) == c.made /\ ~c.closed /\ Cardinality(c.buf) < c.cap

\* A step of the IterBuffered call that leaves it as it2 and the locks as l2.
IterTo(it2, l2) ==
    /\ iter' = it2
    /\ locks' = l2
    /\ UNCHANGED <<shards, procs, reactorVars, ctorVars, clockVars, apiVars>>

\* IterBuffered is called: snapshot starts one goroutine per shard and
\* waits for them in wg.Wait().
IterBufferedCall ==
    /\ iter.pc = "idle"
    /\ IterTo([NoIter EXCEPT !.pc = "snapshot",
                            !.snap = [i \in ShardIds |-> "rlock"]], locks)

\* snapshot, goroutine of shard i: shard.RLock();
\* ch := make(chan Tuple, len(shard.items)); channels[index] = ch
SnapshotRLock(i) ==
    /\ iter.snap[i] = "rlock"
    /\ ~locks[i].w
    /\ IterTo([iter EXCEPT !.snap[i] = IF DOMAIN shards[i] = {} THEN "runlock" ELSE "send",
                           !.todo[i] = DOMAIN shards[i],
                           !.channels[i] = [made |-> TRUE, cap |-> Cardinality(DOMAIN shards[i]),
                                            buf |-> {}, closed |-> FALSE]],
              [locks EXCEPT ![i].r = @ + 1])

\* for key, val := range shard.items { ch <- Tuple{key, val} }: one send
SnapshotSend(i, k) ==
    /\ iter.snap[i] = "send"
    /\ k \in iter.todo[i]
    /\ HasRoom(iter.channels[i])
    /\ IterTo([iter EXCEPT !.snap[i] = IF iter.todo[i] = {k} THEN "runlock" ELSE "send",
                           !.todo[i] = @ \ {k},
                           !.channels[i].buf = @ \cup {<<k, shards[i][k]>>}],
              locks)

\* shard.RUnlock()
SnapshotRUnlock(i) ==
    /\ iter.snap[i] = "runlock"
    /\ IterTo([iter EXCEPT !.snap[i] = "close"], [locks EXCEPT ![i].r = @ - 1])

\* close(ch); the deferred wg.Done()
SnapshotClose(i) ==
    /\ iter.snap[i] = "close"
    /\ IterTo([iter EXCEPT !.snap[i] = "done", !.channels[i].closed = TRUE], locks)

\* The sum of cap(c) over the channels 0 .. n - 1.
RECURSIVE SumCap(_, _)
SumCap(cs, n) == IF n = 0 THEN 0 ELSE cs[n - 1].cap + SumCap(cs, n - 1)

\* OutChan as it would be with the channel Iter makes: make(chan Tuple),
\* without a buffer.
OutChanUnbuffered(total) == [made |-> TRUE, cap |-> 0, buf |-> {}, closed |-> FALSE]

\* The channel IterBuffered makes: make(chan Tuple, total).
OutChan(total) == [made |-> TRUE, cap |-> total, buf |-> {}, closed |-> FALSE]

\* wg.Wait() of snapshot returns; IterBuffered adds up the capacities, makes
\* out, starts fanIn and returns out.  fanIn starts one goroutine per
\* channel.
IterBufferedReturn ==
    /\ iter.pc = "snapshot"
    /\ \A i \in ShardIds : iter.snap[i] = "done"
    /\ IterTo([iter EXCEPT !.pc = "returned",
                           !.out = OutChan(SumCap(iter.channels, ShardCount)),
                           !.fan = [i \in ShardIds |-> "range"],
                           !.fanIn = "wait"],
              locks)

\* fanIn, goroutine of channel i: for t := range c receives a Tuple, or
\* ends when c is closed and empty; then wg.Done()
FanInRange(i) ==
    /\ iter.fan[i] = "range"
    /\ LET c == iter.channels[i]
       IN \/ \E t \in c.buf :
                IterTo([iter EXCEPT !.fan[i] = "send", !.held[i] = t,
                                    !.channels[i].buf = @ \ {t}], locks)
          \/ /\ c.buf = {} /\ c.closed
             /\ IterTo([iter EXCEPT !.fan[i] = "done"], locks)

\* out <- t
FanInSend(i) ==
    /\ iter.fan[i] = "send"
    /\ HasRoom(iter.out)
    /\ IterTo([iter EXCEPT !.fan[i] = "range", !.held[i] = NoTuple,
                           !.out.buf = @ \cup {iter.held[i]}], locks)

\* wg.Wait() of fanIn returns; close(out)
FanInClose ==
    /\ iter.fanIn = "wait"
    /\ \A i \in ShardIds : iter.fan[i] = "done"
    /\ IterTo([iter EXCEPT !.fanIn = "done", !.out.closed = TRUE], locks)

\* The consumer receives one Tuple from the channel IterBuffered returned.
Receive ==
    /\ iter.pc = "returned"
    /\ \E t \in iter.out.buf : IterTo([iter EXCEPT !.out.buf = @ \ {t}], locks)

\* The consumer's range loop ends: the channel is closed and empty.
RangeEnd ==
    /\ iter.pc = "returned"
    /\ iter.out.closed /\ iter.out.buf = {}
    /\ IterTo(NoIter, locks)

\* The goroutines of snapshot and fanIn.
SnapshotStep(i) ==
    \/ \E k \in MapKeys : SnapshotSend(i, k)
    \/ SnapshotRUnlock(i)
    \/ SnapshotClose(i)

FanInStep(i) == FanInRange(i) \/ FanInSend(i)

\* The other callers Set and Remove meanwhile.
Mutators == Procs \ Enumerators

BufMutateCall(p) ==
    \/ \E k \in MapKeys : SetCall(p, k, 1)
    \/ \E k \in MapKeys : RemoveCall(p, k)

NextBuf ==
    \/ IterBufferedCall
    \/ \E i \in ShardIds : SnapshotRLock(i)
    \/ \E i \in ShardIds : SnapshotStep(i)
    \/ IterBufferedReturn
    \/ \E i \in ShardIds : FanInStep(i)
    \/ FanInClose
    \/ Receive
    \/ RangeEnd
    \/ \E p \in Mutators : BufMutateCall(p) \/ MutateStep(p)

\* Go runs every runnable goroutine; a reader waiting in RLock gets the lock
\* when the writer inside unlocks, before the next writer; a writer inside
\* a shard runs to its Unlock.  Nothing makes the consumer receive.
FairnessBuf ==
    /\ \A i \in ShardIds :
          /\ SF_vars(SnapshotRLock(i))
          /\ WF_vars(SnapshotStep(i))
          /\ WF_vars(FanInStep(i))
    /\ WF_vars(IterBufferedReturn)
    /\ WF_vars(FanInClose)
    /\ \A p \in Mutators : WF_vars(MutateStep(p))

BufSpec == Init /\ [][NextBuf]_vars /\ FairnessBuf

\* ----------------------------------------------------------------- claims

\* Goroutines of bag b at position p with argument r, whatever their history.
NumIn(b, p, r) == CopiesIn(Task(p, r, 0), b) + CopiesIn(Task(p, r, 1), b)

\* Goroutines of key k at one of the positions P.
NumOf(k, P) == BagCardinality([x \in {y \in DOMAIN tasks : PcOf(y) \in P /\ KeyOf(y) = k} |-> tasks[x]])

\* C1: in every reachable state the number of heartbeat calls in flight
\* (between a successful Acquire and the return of Heartbeat), over all keys
\* and goroutines, is at most the capacity of the semaphore.
C1_InFlightBounded == InFlight <= BeatThreadCount

\* C1 witness: every slot is taken by a call in flight while a further
\* goroutine is waiting.
C1_Witness == InFlight = BeatThreadCount /\ NumAt({"wait"}) > 0

\* C2: every slot acquired is released when the attempt ends, on every
\* path, so the slots held are exactly those of the goroutines between
\* Acquire and the end of their attempt.
C2_SlotsHeldByAttempts == sem = InAttempt

\* C3: after RemoveBeatInfo(k) returned for a key it found, every goroutine
\* bound to k eventually exits (as long as k is not added again).
C3_RemovedTasksExit ==
    \A k \in Keys :
        [](removed[k] /\ NumOf(k, Running) > 0
             => <>(NumOf(k, Running) = 0 \/ ~removed[k]))

\* C4: when RemoveBeatInfo(k) is about to return, k is not in the live map
\* and, when it found k, the record it found has a Status other than "UP".
C4_RemoveMarksAndDeletes ==
    (call.op = "remove" /\ call.pc = "unlock")
        => /\ call.k \notin DOMAIN beatMap
           /\ call.ok => status[call.data] # "UP"

\* C5: after RemoveBeatInfo(k) returned, a goroutine bound to k starts at
\* most one further heartbeat attempt: one that already started an attempt
\* since the removal never passes the Status test again.
C5_AtMostOneBeatAfterRemove ==
    [][\A x \in DOMAIN tasks :
          (PcOf(x) = "check" /\ AfterRm(x) = 1 /\ removed[KeyOf(x)])
              => tasks' # (tasks (-) SetToBag({x})) (+) SetToBag({Task("beat", BeatInfoOf(x), 1)})]_vars

\* C6: once AddBeatInfo(k) has returned, and until RemoveBeatInfo(k) is
\* called or a heartbeat of k returns NotFound (or k is added again), the
\* live map holds k with a record whose Status is "UP".  A NotFound that the
\* goroutine of this very call gets before the call returns ends the
\* guarantee too.
C6_LiveKeyStaysUp ==
    \A k \in Keys :
        (live[k] /\ call.k # k) => (k \in DOMAIN beatMap /\ status[beatMap[k]] = "UP")

\* C7: for every key, at most one heartbeat attempt is in flight at a time.
C7_OneBeatPerKey == \A k \in Keys : NumOf(k, {"beat"}) <= 1

\* C8: when AddBeatInfo found its key in the live map, the record it found
\* there has a Status other than "UP" when the call returns, so that the
\* goroutine started by the earlier add exits at its next Status test.
C8_StaleRecordSuperseded ==
    (call.op = "add" /\ call.pc = "unlock" /\ call.ok) => status[call.data] # "UP"

\* C9: the goroutine whose heartbeat returned NotFound removes its key from
\* the live map and exits; a goroutine that exited stays so (it neither
\* acquires nor beats again, nothing restarts it), and a key that is not in
\* the live map enters it only by a step of AddBeatInfo for that key.
C9_NotFoundExitsForGood ==
    [][/\ tasks' # tasks =>
            \A x \in DOMAIN tasks :
                /\ PcOf(x) = "exit" => CopiesIn(x, tasks') >= tasks[x]
                /\ PcOf(x) = "notfound" =>
                      LET r == BeatInfoOf(x)
                      IN NumIn(tasks', "notfound", r) < NumIn(tasks, "notfound", r)
                           => /\ InstanceID(r) \notin DOMAIN beatMap'
                              /\ NumIn(tasks', "exit", r) = NumIn(tasks, "exit", r) + 1
       /\ beatMap' # beatMap =>
            \A k \in Keys :
                (k \notin DOMAIN beatMap /\ k \in DOMAIN beatMap')
                     => (call.op = "add" /\ call.k = k)]_vars

\* C9 witness: a goroutine has exited and its key is not in the live map.
C9_Witness == \E x \in DOMAIN tasks : PcOf(x) = "exit" /\ KeyOf(x) \notin DOMAIN beatMap

\* C10: when every heartbeat of K1 fails transiently and K1 is never
\* removed, K1 stays in the live map with Status "UP" and its goroutine
\* attempts a heartbeat again and again, forever.
C10_TransientRetriesForever ==
    /\ [](live[K1] => (K1 \in DOMAIN beatMap /\ status[beatMap[K1]] = "UP"))
    /\ [](NumOf(K1, Running) > 0 => <>(NumOf(K1, {"beat"}) > 0))

\* C11: beatRecordMap is written only by a goroutine whose Heartbeat has
\* just returned nil, and that step stores the current time under the
\* goroutine's key; every other step (a transient error, NotFound, add,
\* remove) leaves it as it is, so a key without a success has no entry.
C11_RecordOnlyOnSuccess ==
    [][\/ beatRecordMap' = beatRecordMap
       \/ \E x \in DOMAIN tasks : \E resp \in Responses :
              /\ BeatOk(x, resp)
              /\ resp = 200
              /\ beatRecordMap' = Set(beatRecordMap, KeyOf(x), now)]_vars

\* C11 witness: a success has been recorded for K1.
C11_Witness == K1 \in DOMAIN beatRecordMap /\ beatRecordMap[K1] = now

\* C12: on every map the callers can produce, for every key k and value v:
\* a lookup of k after storing v under k gives (v, true); a lookup of k
\* after deleting k gives not found; deleting an absent key changes nothing;
\* and storing or deleting k changes the lookup of no other key.
C12_RoundTrip ==
    \A k \in MapKeys :
        /\ \A v \in Vals : Lookup(Stored(shards, k, v), k) = [val |-> v, ok |-> TRUE]
        /\ ~Lookup(Deleted(shards, k), k).ok
        /\ ~Lookup(shards, k).ok => Deleted(shards, k) = shards
        /\ \A j \in MapKeys \ {k} :
              /\ Lookup(Deleted(shards, k), j) = Lookup(shards, j)
              /\ \A v \in Vals : Lookup(Stored(shards, k, v), j) = Lookup(shards, j)

\* C12 witness: a Remove has deleted its key while another key of the same
\* shard is stored, and a third key is absent.
C12_Witness ==
    \E p \in Procs :
        /\ In(p, "Remove", "unlock")
        /\ ~Lookup(shards, procs[p].key).ok
        /\ \E j \in MapKeys \ {procs[p].key} :
              GetShard(j) = GetShard(procs[p].key) /\ Lookup(shards, j).ok

\* A caller is in SetIfAbsent between its test of the key and its return,
\* having found the key absent: it is the one that will return true.
Inserting(p) ==
    /\ procs[p].op = "SetIfAbsent"
    /\ procs[p].pc \in {"store", "unlock"}
    /\ ~procs[p].ok

\* C13: of the callers racing in SetIfAbsent on one key at most one finds
\* it absent and returns true; when it stores, the key is still absent, and
\* when it returns the key holds the value it passed; a caller that found
\* the key present returns false with the stored value as it found it.
C13_SetIfAbsentOnce ==
    \A p \in Procs :
        /\ \A q \in Procs \ {p} :
              (Inserting(p) /\ Inserting(q)) => procs[p].key # procs[q].key
        /\ In(p, "SetIfAbsent", "store") => ~Lookup(shards, procs[p].key).ok
        /\ In(p, "SetIfAbsent", "unlock") =>
              Lookup(shards, procs[p].key) =
                  [val |-> IF procs[p].ok THEN procs[p].val ELSE procs[p].value, ok |-> TRUE]

\* C13 witness: one caller of SetIfAbsent has inserted its value and is
\* about to return true while another caller of SetIfAbsent on the same
\* key, with another value, waits for the lock.
C13_Witness ==
    \E p \in Procs : \E q \in Procs \ {p} :
        /\ In(p, "SetIfAbsent", "unlock") /\ ~procs[p].ok
        /\ In(q, "SetIfAbsent", "lock")
        /\ procs[q].key = procs[p].key /\ procs[q].value # procs[p].value

\* A caller is in Pop between its read of the key and its return, having
\* found an entry: it is the one that will return (v, true).
Popping(p) ==
    /\ procs[p].op = "Pop"
    /\ procs[p].pc \in {"delete", "unlock"}
    /\ procs[p].ok

\* C14: Pop reads and deletes in one piece: when it deletes, the key is as
\* it read it (the value it will return, or absent and then nil); when it
\* returns, the key is absent; and of the callers racing in Pop on one key
\* at most one has found the entry.
C14_PopAtomic ==
    \A p \in Procs :
        /\ In(p, "Pop", "delete") =>
              Lookup(shards, procs[p].key) = [val |-> procs[p].val, ok |-> procs[p].ok]
        /\ (In(p, "Pop", "delete") /\ ~procs[p].ok) => procs[p].val = NoVal
        /\ In(p, "Pop", "unlock") => ~Lookup(shards, procs[p].key).ok
        /\ \A q \in Procs \ {p} :
              (Popping(p) /\ Popping(q)) => procs[p].key # procs[q].key

\* C14 witness: one caller of Pop has read and deleted an entry and is
\* about to return it while another caller of Pop on the same key waits
\* for the lock.
C14_Witness ==
    \E p \in Procs : \E q \in Procs \ {p} :
        /\ In(p, "Pop", "unlock") /\ procs[p].ok /\ procs[p].val \in Vals
        /\ In(q, "Pop", "lock") /\ procs[q].key = procs[p].key

\* C15: Upsert reads, combines and stores in one piece, under the writer
\* lock of the key's shard: when it stores, the key is as it read it, so no
\* update made in between is lost; when it returns, the key holds the
\* result of the callback on what was read; and all that time the caller
\* holds the lock, no other caller being inside that shard.
C15_UpsertAtomic ==
    \A p \in Procs :
        /\ In(p, "Upsert", "store") =>
              Lookup(shards, procs[p].key) = [val |-> procs[p].val, ok |-> procs[p].ok]
        /\ In(p, "Upsert", "unlock") =>
              Lookup(shards, procs[p].key) =
                  [val |-> UpsertCb(procs[p].ok, procs[p].val, procs[p].value), ok |-> TRUE]
        /\ (procs[p].op = "Upsert" /\ procs[p].pc \in {"read", "store", "unlock"}) =>
              /\ locks[GetShard(procs[p].key)] = [w |-> TRUE, r |-> 0]
              /\ \A q \in Procs \ {p} :
                    (procs[q].pc \in {"read", "store", "delete", "unlock", "runlock"})
                        => GetShard(procs[q].key) # GetShard(procs[p].key)

\* C15 witness: an increment has found a stored value and has stored the
\* sum, while another caller of Upsert on the same key waits for the lock.
C15_Witness ==
    \E p \in Procs : \E q \in Procs \ {p} :
        /\ In(p, "Upsert", "unlock") /\ procs[p].ok
        /\ Lookup(shards, procs[p].key).val = procs[p].val + procs[p].value
        /\ In(q, "Upsert", "lock") /\ procs[q].key = procs[p].key

\* A caller of Count or IsEmpty has read the last shard: count is what
\* Count returns, and IsEmpty returns whether it is 0.
CountDone(p) ==
    /\ procs[p].op \in {"Count", "IsEmpty"}
    /\ procs[p].pc = "runlock"
    /\ procs[p].i = ShardCount - 1

\* C16: Count reads the size of each shard under that shard's read lock
\* and adds them up.  When the number of stored keys did not change during
\* the call, the sum is that number, and IsEmpty is true exactly when the
\* map is empty; otherwise all that holds is that each size was read under
\* its lock, the size of the last shard read being still part of the sum.
C16_CountSum ==
    \A p \in Procs :
        /\ (procs[p].op \in {"Count", "IsEmpty"} /\ procs[p].pc \in {"len", "runlock"}) =>
              (locks[procs[p].i].r > 0 /\ ~locks[procs[p].i].w)
        /\ (procs[p].op \in {"Count", "IsEmpty"} /\ procs[p].pc = "runlock") =>
              procs[p].count >= Cardinality(DOMAIN shards[procs[p].i])
        /\ (CountDone(p) /\ procs[p].seen = {Cardinality(StoredKeys(shards))}) =>
              /\ procs[p].count = Cardinality(StoredKeys(shards))
              /\ procs[p].count = SumLen(shards, ShardCount)
              /\ (procs[p].count = 0) <=> (StoredKeys(shards) = {})

\* C16 witness: Count is about to return a number that was the size of the
\* map at no instant of the call.
C16_Witness ==
    \E p \in Procs :
        CountDone(p) /\ procs[p].op = "Count" /\ procs[p].count \notin procs[p].seen

\* A caller of Keys, Items or IterCb has finished the last shard: acc is
\* what Keys and Items return.
RangeDone(p) == procs[p].pc = "rangeunlock" /\ procs[p].i = ShardCount - 1

\* The keys Keys has collected, and the entries Items has collected.
KeysOf(p) == BagToSet(procs[p].acc)

ItemsOf(p) == {<<k, procs[p].acc[k]>> : k \in DOMAIN procs[p].acc}

C18_IterCbUnderLock ==
    \A p \in Procs :
        (procs[p].op = "IterCb" /\ procs[p].pc \in {"range", "rangeunlock"}) =>
            LET i == procs[p].i
                called == {e \in BagToSet(procs[p].acc) : GetShard(e[1]) = i}
            IN /\ locks[i].r > 0 /\ ~locks[i].w
               /\ \A e \in BagToSet(procs[p].acc) : CopiesIn(e, procs[p].acc) = 1
               /\ procs[p].todo \subseteq DOMAIN shards[i]
               /\ called = {<<k, shards[i][k]>> : k \in DOMAIN shards[i] \ procs[p].todo}

\* C18 witness: IterCb has called the callback for one of the two entries
\* of a shard while a Set or Remove on a key of that shard waits for the
\* lock.
C18_Witness ==
    \E p \in Procs : \E q \in Procs \ {p} :
        /\ In(p, "IterCb", "range")
        /\ Cardinality(DOMAIN shards[procs[p].i]) = 2
        /\ Cardinality(procs[p].todo) = 1
        /\ procs[q].pc = "lock" /\ GetShard(procs[q].key) = procs[p].i

\* C19: after NewBeatReactor the period is 5 seconds when the argument is
\* <= 0 and s seconds when the argument is s > 0 (the exact product of s
\* and time.Second), and the limiter capacity is 20.
C19_PeriodNormalized ==
    ctor # NoCtor =>
        /\ ctor.capacity = 20
        /\ LeqZero(ctor.arg) => SignExtend(ctor.Period) = MulExact(Small(5), Second)
        /\ ~LeqZero(ctor.arg) => SignExtend(ctor.Period) = MulExact(ctor.arg, Second)

\* C20: when AddBeatInfo is called with a record for a key that the live
\* map holds with another record, the record it stores under the key and
\* hands to the goroutine it starts is the one it was called with.
C20_NewRecordStored ==
    (call.op = "add" /\ call.pc \in {"go", "unlock"} /\ call.ok /\ call.arg # call.data) =>
        /\ call.beatInfo = call.arg
        /\ call.k \in DOMAIN beatMap => beatMap[call.k] = call.arg

\* AddBeatInfo or RemoveBeatInfo is at its write of r.Status; it holds
\* br.mux and no shard lock (beatMap.Get has returned).
StatusWriter(r) == call.pc = "status" /\ call.beatInfo = r

\* A goroutine is at its read of r.Status; it holds a slot of the semaphore,
\* neither br.mux nor a shard lock.
StatusReader(r) == NumIn(tasks, "check", r) > 0

\* C21: the reads and writes of a record's Status are ordered by a common
\* lock: in no reachable state is a goroutine at its read of a record's
\* Status while AddBeatInfo or RemoveBeatInfo is at its write of the Status
\* of the same record.
C21_StatusAccessOrdered == \A r \in Recs : ~(StatusWriter(r) /\ StatusReader(r))

\* The shard a caller is working on: the shard of its key, or the shard i
\* its loop over the shards is at.
ShardOf(p) == IF procs[p].key # NoKey THEN GetShard(procs[p].key) ELSE procs[p].i

\* The callers between shard.Lock() and shard.Unlock() of shard s.
Writers(s) ==
    {p \in Procs : /\ procs[p].op \in {"Set", "Remove", "SetIfAbsent", "Pop", "Upsert"}
                   /\ procs[p].pc \in {"read", "store", "delete", "unlock"}
                   /\ ShardOf(p) = s}

\* The callers between shard.RLock() and shard.RUnlock() of shard s.
Readers(s) ==
    {p \in Procs : /\ \/ procs[p].op = "Get" /\ procs[p].pc \in {"read", "runlock"}
                      \/ procs[p].pc \in {"len", "range", "rangeunlock"}
                      \/ procs[p].op \in {"Count", "IsEmpty", "Keys"} /\ procs[p].pc = "runlock"
                   /\ ShardOf(p) = s}

\* The callers waiting in shard.Lock() of shard s.
LockWaiters(s) == {p \in Procs : procs[p].pc = "lock" /\ ShardOf(p) = s}

\* C22: in every reachable state each shard has at most one caller between
\* Lock and Unlock, never one together with a caller between RLock and
\* RUnlock, and the mutex counts exactly the callers inside (two readers
\* can be inside together); a caller waiting in Lock can go on when nobody
\* is inside its own shard, and one waiting in RLock when no writer is
\* inside or waiting at its own shard, whatever locks are held on the other
\* shards.
C22_ShardLockDiscipline ==
    /\ \A s \in ShardIds :
          /\ Cardinality(Writers(s)) <= 1
          /\ locks[s].w <=> (Writers(s) # {})
          /\ locks[s].r = Cardinality(Readers(s))
          /\ ~(Writers(s) # {} /\ Readers(s) # {})
    /\ \A p \in Procs :
          /\ (procs[p].pc = "lock" /\ Writers(ShardOf(p)) = {} /\ Readers(ShardOf(p)) = {})
                => ENABLED (KeyOpStep(p) \/ IterStep(p))
          /\ (procs[p].pc = "rlock" /\ Writers(ShardOf(p)) = {} /\ LockWaiters(ShardOf(p)) = {})
                => ENABLED (KeyOpStep(p) \/ IterStep(p))

\* C22 witness: one caller is inside a shard as a writer while the other,
\* having taken its lock meanwhile, is inside a different shard.
C22_Witness ==
    \E p \in Procs : \E q \in Procs \ {p} :
        /\ p \in Writers(ShardOf(p))
        /\ procs[p].pc = "unlock"
        /\ q \in Writers(ShardOf(q)) \cup Readers(ShardOf(q))
        /\ procs[q].pc = "read"
        /\ ShardOf(q) # ShardOf(p)

\* C23: the shard of a key is hash(key) mod ShardCount, a function of the
\* key alone: the index is one of the map's shards, and in every reachable
\* state every stored key is in the shard GetShard returns for it, hence in
\* exactly one shard, and found there by a lookup.
C23_StableShardAssignment ==
    /\ \A k \in MapKeys : GetShard(k) \in ShardIds
    /\ \A i \in ShardIds : \A k \in DOMAIN shards[i] :
          /\ GetShard(k) = i
          /\ Lookup(shards, k) = [val |-> shards[i][k], ok |-> TRUE]
    /\ \A k \in StoredKeys(shards) :
          Cardinality({i \in ShardIds : k \in DOMAIN shards[i]}) = 1

\* C23 witness: all the keys are stored, more keys than there are shards,
\* so that at least two keys share a shard.
C23_Witness ==
    /\ StoredKeys(shards) = MapKeys
    /\ \E k \in MapKeys : \E j \in MapKeys \ {k} : GetShard(k) = GetShard(j)

\* C24: the limiter is never exhausted for good.  Whenever a goroutine
\* waits in Acquire with no slot free, the slots are all held by attempts
\* that are under way; and, every Heartbeat call returning, a goroutine of
\* K1 that waits in Acquire (K1 is never removed and never gets NotFound)
\* eventually gets a slot, whatever the heartbeats of the other keys
\* returned.
C24_LimiterNeverExhausted ==
    /\ []((NumAt({"wait"}) > 0 /\ sem >= BeatThreadCount) => InAttempt >= BeatThreadCount)
    /\ [](NumOf(K1, {"wait"}) > 0 => <>(NumOf(K1, {"check", "beat"}) > 0))

\* C25: a goroutine whose heartbeat returned NotFound removes its key from
\* the live map only when the entry stored is the one it was started for:
\* the record stored under the key is the one it was started with, and no
\* AddBeatInfo of the key has installed an entry and started its goroutine
\* since that NotFound was returned.
C25_StaleNotFoundKeepsNewEntry ==
    [][\A x \in DOMAIN tasks :
          HandleNotFound(x) =>
              /\ KeyOf(x) \in DOMAIN beatMap => beatMap[KeyOf(x)] = BeatInfoOf(x)
              /\ ~live[KeyOf(x)]]_vars

\* C26: the time of the last success stored for a key never decreases: an
\* entry of beatRecordMap stays, and every write stores a time that is at
\* least the time it replaces, however the goroutines of the key interleave.
C26_LastSuccessMonotone ==
    [][\A k \in DOMAIN beatRecordMap :
          /\ k \in DOMAIN beatRecordMap'
          /\ beatRecordMap'[k] >= beatRecordMap[k]]_vars

ProducersDone ==
    /\ \A i \in ShardIds : iter.snap[i] = "done" /\ iter.fan[i] = "done"
    /\ iter.fanIn = "done"
    /\ iter.out.closed

\* C28: IterBuffered terminates its producers without a consumer.  A
\* goroutine of snapshot that is at a send holds the read lock of its shard
\* and the channel has room, so the send does not block; a channel of
\* snapshot, once closed and before fanIn reads it, holds as many Tuples as
\* its capacity; out has the sum of these capacities, so a goroutine of
\* fanIn at a send finds room too; and every call reaches the state where
\* all these goroutines have finished and out is closed, whether or not the
\* consumer receives.
C28_IterBufferedTerminates ==
    /\ [](\A i \in ShardIds :
             /\ iter.snap[i] = "send" =>
                   /\ HasRoom(iter.channels[i])
                   /\ locks[i].r > 0 /\ ~locks[i].w
             /\ (iter.snap[i] \in {"close", "done"} /\ iter.fan[i] = "none") =>
                   Cardinality(iter.channels[i].buf) = iter.channels[i].cap
             /\ iter.fan[i] = "send" => HasRoom(iter.out)
             /\ iter.out.made => iter.out.cap = SumCap(iter.channels, ShardCount))
    /\ (iter.pc = "snapshot") ~> ProducersDone

\* C28 witness: the producers have finished and out is closed while it
\* holds every Tuple captured, one per key: the consumer has received
\* nothing and out is full.
C28_Witness ==
    /\ ProducersDone
    /\ iter.out.cap = Cardinality(MapKeys)
    /\ Cardinality(iter.out.buf) = iter.out.cap

====
